---- MODULE Spec2Model ----
(***************************************************************************)
(* NPMRDS travel time reliability (LOTTR) script, src/main.py.             *)
(*                                                                         *)
(* A dataset (pandas DataFrame) is a sequence of rows; a row is a record   *)
(* whose fields are the DataFrame's columns.  A numeric cell is <<v>>, a   *)
(* missing cell (NaN) is << >>.  A timestamp is the pair of its native     *)
(* weekday (Monday = 0 .. Sunday = 6) and its hour, the only parts of it   *)
(* the script reads.  The column ROW is the RangeIndex read_csv gives a    *)
(* file's rows (1-based here); it lets a row of an output be traced to the *)
(* input row it was made from.                                             *)
(***************************************************************************)
EXTENDS Integers, Sequences, FiniteSets, TLC

VARIABLES
    pc,               \* position of the script / of the function call under study
    numpy_even,       \* installed numpy: ties of closest_observation go to the even (TRUE) or odd (FALSE) order statistic
    ohint, ohintrk, ohsro, ohusr,   \* contents of the four input CSV files
    data_int, data_int_trk, data_int_merged, data_sro, data_usr,
    files,            \* output files written so far: name -> dataset
    failed,           \* << >> or <<step, stage>> of the uncaught exception
    arg,              \* arguments of the function call under study
    ret               \* its outcome

vars == <<pc, numpy_even, ohint, ohintrk, ohsro, ohusr, data_int, data_int_trk,
          data_int_merged, data_sro, data_usr, files, failed, arg, ret>>

pipeline_vars == <<ohint, ohintrk, ohsro, ohusr, data_int, data_int_trk,
                   data_int_merged, data_sro, data_usr, files, failed>>

-----------------------------------------------------------------------------
(* Cells *)

NaN == << >>

Num(v) == <<v>>

isna(c) == c = NaN

-----------------------------------------------------------------------------
(* Bounds of the model *)

\* most rows over the two Interstate files (SpecInterstate)
MaxRows == 3

\* most rows over the four files of a whole run (Spec)
MaxRunRows == 2

\* most rows of the dataset handed to add_lottr_to_dataset (SpecLottr)
MaxLottrRows == 2

\* largest group handed to np.percentile (SpecPercentile)
MaxN == 10

-----------------------------------------------------------------------------
(* Ingestion: csv_preprocessing_pipeline *)

\* a row of a CSV file
FileRow(tmc, tstamp, speed, tt) ==
    [tmc_code |-> tmc, measurement_tstamp |-> tstamp, speed |-> speed,
     travel_time_seconds |-> tt]

\* the files of at most n rows over a set of rows
Files(rows, n) == UNION {[1..k -> rows] : k \in 0..n}

\* read_csv and the renaming of the three columns; ROW is the RangeIndex
csv_preprocessing_pipeline(file) ==
    [i \in 1..Len(file) |->
        [tmc_code |-> file[i].tmc_code,
         DATETIME |-> file[i].measurement_tstamp,
         MPH |-> file[i].speed,
         TT_SEC |-> file[i].travel_time_seconds,
         ROW |-> Num(i)]]

-----------------------------------------------------------------------------
(* Time Bucketer: add_hod_dow_tod_to_dataset *)

\* a between that keeps its endpoints where the code excludes them
BetweenNeither_Inclusive(x, left, right) == left <= x /\ x <= right

\* Series.between(left, right, inclusive='neither')
BetweenNeither(x, left, right) == left < x /\ x < right

\* Series.between(left, right), inclusive='both' by default
BetweenBoth(x, left, right) == left <= x /\ x <= right

\* (dt.dayofweek + 2).replace(8, 1)
DOWOf(dayofweek) == IF dayofweek + 2 = 8 THEN 1 ELSE dayofweek + 2

\* the four masked assignments over the default 'EV', in the order of the code
TODOf(hod, dow) ==
    LET t0 == "EV"
        t1 == IF BetweenNeither(hod, 5, 10) /\ BetweenBoth(dow, 2, 6) THEN "AM" ELSE t0
        t2 == IF BetweenNeither(hod, 9, 16) /\ BetweenBoth(dow, 2, 6) THEN "MD" ELSE t1
        t3 == IF BetweenNeither(hod, 15, 20) /\ BetweenBoth(dow, 2, 6) THEN "PM" ELSE t2
        t4 == IF BetweenNeither(hod, 5, 20) /\ dow \in {1, 7} THEN "WE" ELSE t3
    IN  t4

BucketRow(r) ==
    LET hod == r.DATETIME.hour
        dow == DOWOf(r.DATETIME.dayofweek)
    IN  [HOD |-> hod, DOW |-> dow, TOD |-> TODOf(hod, dow)] @@ r

add_hod_dow_tod_to_dataset(data) == [i \in 1..Len(data) |-> BucketRow(data[i])]

-----------------------------------------------------------------------------
(* SpecTod: add_hod_dow_tod_to_dataset on every weekday and hour *)

Timestamps == [dayofweek : 0..6, hour : 0..23]

Idle == UNCHANGED <<pipeline_vars, numpy_even>>

NoPipeline ==
    /\ ohint = << >> /\ ohintrk = << >> /\ ohsro = << >> /\ ohusr = << >>
    /\ data_int = << >> /\ data_int_trk = << >> /\ data_int_merged = << >>
    /\ data_sro = << >> /\ data_usr = << >>
    /\ files = << >> /\ failed = << >>

InitTod ==
    /\ pc = "call"
    /\ numpy_even = TRUE
    /\ \E t \in Timestamps :
          arg = csv_preprocessing_pipeline(<<FileRow("A", t, Num(55), Num(120))>>)
    /\ ret = << >>
    /\ NoPipeline

CallTod ==
    /\ pc = "call"
    /\ ret' = add_hod_dow_tod_to_dataset(arg)
    /\ pc' = "returned"
    /\ arg' = arg
    /\ Idle

NextTod == CallTod

SpecTod == InitTod /\ [][NextTod]_vars

\* C1: every hour 0..23 on every day of the week gets exactly one time_of_day:
\* AM for Monday-Friday (day_of_week 2..6) at hours 6..9, MD at 10..15, PM at
\* 16..19, WE for Saturday/Sunday (7 or 1) at 6..19, EV otherwise; native
\* Monday = 0 maps to 2 and native Sunday = 6 to 1.
C1_TimeOfDay ==
    pc = "returned" =>
        /\ Len(ret) = Len(arg)
        /\ \A i \in 1..Len(ret) :
              LET h == arg[i].DATETIME.hour
                  n == arg[i].DATETIME.dayofweek
                  weekday == n \in 0..4
                  expected == IF weekday /\ h \in 6..9 THEN "AM"
                              ELSE IF weekday /\ h \in 10..15 THEN "MD"
                              ELSE IF weekday /\ h \in 16..19 THEN "PM"
                              ELSE IF ~weekday /\ h \in 6..19 THEN "WE"
                              ELSE "EV"
              IN  /\ ret[i].HOD = h
                  /\ ret[i].DOW = (IF n = 6 THEN 1 ELSE n + 2)
                  /\ (ret[i].DOW \in 2..6) = weekday
                  /\ ret[i].TOD = expected

\* a Sunday evening boundary hour has been bucketed: WE, day_of_week 1
C1_Witness ==
    /\ pc = "returned"
    /\ arg[1].DATETIME = [dayofweek |-> 6, hour |-> 19]
    /\ ret[1].TOD = "WE"
    /\ ret[1].DOW = 1

-----------------------------------------------------------------------------
(* np.percentile(x, q, method='closest_observation') *)

RECURSIVE Insert(_, _)
Insert(v, s) ==
    IF s = << >> THEN <<v>>
    ELSE IF v <= Head(s) THEN <<v>> \o s
    ELSE <<Head(s)>> \o Insert(v, Tail(s))

RECURSIVE Sort(_)
Sort(s) == IF s = << >> THEN << >> ELSE Insert(Head(s), Sort(Tail(s)))

\* the rank of the linear method, rounded half up: round(q (n - 1) / 100)
ClosestObservation_LinearRank(n, q) == (2 * q * (n - 1) + 100) \div 200

\* numpy's index (0-based) into the sorted group of n values.  The virtual index
\* is n q / 100 - 1 - 0.5, held here in hundredths; numpy takes the integer
\* above it, or at an exact integer the one whose parity the installed version
\* prefers, and clips a negative index to 0.
ClosestObservation(n, q) ==
    LET index == n * q - 150
        previous == index \div 100
        next == previous + 1
        gamma == index - 100 * previous
        parity == IF numpy_even THEN 1 ELSE 0
        res == IF gamma = 0 /\ previous % 2 = parity THEN previous ELSE next
    IN  IF res < 0 THEN 0 ELSE res

Percentile(x, q) == Sort(x)[ClosestObservation(Len(x), q) + 1]

-----------------------------------------------------------------------------
(* SpecPercentile: np.percentile on one group *)

\* travel times of a group of n rows: all distinct, equal in pairs, or all equal
\* but one; r rotates the rows so that the group arrives unsorted
Group(shape, n, r) ==
    [i \in 1..n |->
        LET k == (i - 1 + r) % n
        IN  CASE shape = "ramp" -> 10 * (k + 1)
              [] shape = "pairs" -> 10 * (k \div 2 + 1)
              [] shape = "spike" -> IF k = n - 1 THEN 20 ELSE 10]

InitPercentile ==
    /\ pc = "call"
    /\ numpy_even \in BOOLEAN
    /\ \E n \in 1..MaxN, q \in 0..100, shape \in {"ramp", "pairs", "spike"} :
          \E r \in 0..(n - 1) : arg = [x |-> Group(shape, n, r), q |-> q]
    /\ ret = << >>
    /\ NoPipeline

CallPercentile ==
    /\ pc = "call"
    /\ ret' = Num(Percentile(arg.x, arg.q))
    /\ pc' = "returned"
    /\ arg' = arg
    /\ Idle

NextPercentile == CallPercentile

SpecPercentile == InitPercentile /\ [][NextPercentile]_vars

\* v is the element at 0-based rank r of x sorted ascending
AtRank(x, r, v) ==
    /\ \E i \in 1..Len(x) : x[i] = v
    /\ Cardinality({i \in 1..Len(x) : x[i] < v}) <= r
    /\ r < Cardinality({i \in 1..Len(x) : x[i] <= v})

\* C2: the percentile is the element of the sorted group at the 1-based rank
\* nearest to q n / 100 (0-based: that rank less one, never below 0); when
\* q n / 100 is exactly halfway between two ranks it is one of the two.
C2_NearestOrderStatistic ==
    pc = "returned" =>
        LET n == Len(arg.x)
        IN  \E r \in 0..(n - 1) :
               /\ AtRank(arg.x, r, ret[1])
               /\ \/ 100 * (r + 1) - 50 <= n * arg.q /\ n * arg.q <= 100 * (r + 1) + 50
                  \/ r = 0 /\ n * arg.q < 50

\* the example of the specification: [10,10,10,10,20], 80th percentile, value 10
C2_Witness ==
    /\ pc = "returned"
    /\ arg.x = <<10, 10, 10, 10, 20>>
    /\ arg.q = 80
    /\ ret = Num(10)

\* C2 as claimed: the element at the 0-based rank closest to q (n - 1) / 100
\* (a rank exactly halfway may round either way)
C2_AsClaimed ==
    pc = "returned" =>
        LET n == Len(arg.x)
        IN  \E r \in 0..(n - 1) :
               /\ AtRank(arg.x, r, ret[1])
               /\ 100 * r - 50 <= arg.q * (n - 1)
               /\ arg.q * (n - 1) <= 100 * r + 50

-----------------------------------------------------------------------------
(* Reliability Calculator: add_lottr_to_dataset *)

\* a check that takes 100 itself for out of range
OutOfRange_Strict(q1, q2) == (q1 < 0 \/ q1 >= 100) \/ (q2 < 0 \/ q2 >= 100)

\* the condition of the raise
OutOfRange(q1, q2) == (q1 < 0 \/ q1 > 100) \/ (q2 < 0 \/ q2 > 100)

\* a missing travel time counted as zero instead of dropped
dropna_AsZero(data) ==
    [i \in 1..Len(data) |-> [data[i] EXCEPT !.TT_SEC = IF isna(@) THEN Num(0) ELSE @]]

\* data.dropna(subset=['TT_SEC'])
dropna(data) == SelectSeq(data, LAMBDA r : ~isna(r.TT_SEC))

\* the TT_SEC values of one (tmc_code, TOD) group, in row order
GroupTT(data, tmc, tod) ==
    LET g == SelectSeq(data, LAMBDA r : r.tmc_code = tmc /\ r.TOD = tod)
    IN  [i \in 1..Len(g) |-> g[i].TT_SEC[1]]

\* groupby(['tmc_code','TOD']).agg(TTQ1P=..., TTQ2P=...): one record per group
\* that has a row
PercentileRecords(data_perc, q1, q2) ==
    {[tmc_code |-> k[1], TOD |-> k[2],
      TTQ1P |-> Num(Percentile(GroupTT(data_perc, k[1], k[2]), q1)),
      TTQ2P |-> Num(Percentile(GroupTT(data_perc, k[1], k[2]), q2))] :
        k \in {<<data_perc[i].tmc_code, data_perc[i].TOD>> : i \in 1..Len(data_perc)}}

\* pd.merge(data, data_perc, how='left') on the shared columns tmc_code and TOD;
\* data_perc holds at most one record per key
MergePercentiles(data, perc) ==
    [i \in 1..Len(data) |->
        LET m == {p \in perc : p.tmc_code = data[i].tmc_code /\ p.TOD = data[i].TOD}
        IN  IF m = {} THEN [TTQ1P |-> NaN, TTQ2P |-> NaN] @@ data[i]
            ELSE LET p == CHOOSE p \in m : TRUE
                 IN  [TTQ1P |-> p.TTQ1P, TTQ2P |-> p.TTQ2P] @@ data[i]]

RECURSIVE GCD(_, _)
GCD(a, b) == IF b = 0 THEN a ELSE GCD(b, a % b)

\* the quotient taken the wrong way round
Divide_Swapped(a, b) ==
    IF isna(a) \/ isna(b) THEN [kind |-> "nan", num |-> 0, den |-> 0]
    ELSE IF a[1] = 0 THEN [kind |-> IF b[1] = 0 THEN "nan" ELSE "inf", num |-> 0, den |-> 0]
    ELSE [kind |-> "num", num |-> b[1] \div GCD(a[1], b[1]), den |-> a[1] \div GCD(a[1], b[1])]

\* a / b of two float cells (travel times are never negative): NaN when an
\* operand is NaN or both are 0, +inf when only b is 0, else the quotient, kept
\* as a fraction in lowest terms
Divide(a, b) ==
    IF isna(a) \/ isna(b) THEN [kind |-> "nan", num |-> 0, den |-> 0]
    ELSE IF b[1] = 0 THEN [kind |-> IF a[1] = 0 THEN "nan" ELSE "inf", num |-> 0, den |-> 0]
    ELSE [kind |-> "num", num |-> a[1] \div GCD(a[1], b[1]), den |-> b[1] \div GCD(a[1], b[1])]

\* the body of add_lottr_to_dataset after the range check.  The columns the code
\* names TT{q1}P and TT{q2}P are TTQ1P and TTQ2P with q1 and q2 kept in Q1 and Q2.
add_lottr_to_dataset(data, q1, q2) ==
    LET data_perc == PercentileRecords(dropna(data), q1, q2)
        merged == MergePercentiles(data, data_perc)
    IN  [i \in 1..Len(merged) |->
            [LOTTR |-> Divide(merged[i].TTQ2P, merged[i].TTQ1P), Q1 |-> q1, Q2 |-> q2]
                @@ merged[i]]

-----------------------------------------------------------------------------
(* SpecLottr: add_lottr_to_dataset on a bucketed dataset *)

Monday7 == [dayofweek |-> 0, hour |-> 7]

Monday8 == [dayofweek |-> 0, hour |-> 8]

Monday22 == [dayofweek |-> 0, hour |-> 22]

LottrRows ==
    {FileRow(k[1], k[2], Num(55), tt) :
        k \in {<<"A", Monday7>>, <<"A", Monday22>>, <<"B", Monday7>>},
        tt \in {NaN, Num(0), Num(10), Num(20)}}

QValues == {-1, 0, 50, 100, 101}

InitLottr ==
    /\ pc = "call"
    /\ numpy_even \in BOOLEAN
    /\ \E f \in Files(LottrRows, MaxLottrRows), q1 \in QValues, q2 \in QValues :
          arg = [data |-> add_hod_dow_tod_to_dataset(csv_preprocessing_pipeline(f)),
                 q1 |-> q1, q2 |-> q2]
    /\ ret = << >>
    /\ NoPipeline

CallLottr ==
    /\ pc = "call"
    /\ IF OutOfRange(arg.q1, arg.q2)
       THEN ret' = [raised |-> TRUE, data |-> << >>]
       ELSE ret' = [raised |-> FALSE, data |-> add_lottr_to_dataset(arg.data, arg.q1, arg.q2)]
    /\ pc' = "returned"
    /\ arg' = arg
    /\ Idle

NextLottr == CallLottr

SpecLottr == InitLottr /\ [][NextLottr]_vars

\* the travel times observed (not missing) in the (tmc_code, TOD) group of row r
Observed(data, r) ==
    {data[j].TT_SEC[1] : j \in {j \in 1..Len(data) :
        /\ data[j].tmc_code = r.tmc_code
        /\ data[j].TOD = r.TOD
        /\ data[j].TT_SEC # NaN}}

\* C3: in every row LOTTR is value_at_q2 / value_at_q1 of the row's group when
\* both are present and value_at_q1 is not zero; it is missing when a percentile
\* is missing or both are zero, and +infinity (not missing) when value_at_q1 is
\* zero and value_at_q2 is not.
C3_Lottr ==
    (pc = "returned" /\ ~ret.raised) =>
        \A i \in 1..Len(ret.data) :
            LET r == ret.data[i]
                a == r.TTQ2P
                b == r.TTQ1P
            IN  /\ (Observed(arg.data, r) = {}) = (a = NaN /\ b = NaN)
                /\ a = NaN <=> b = NaN
                /\ (a = NaN \/ b = NaN) => r.LOTTR.kind = "nan"
                /\ (a # NaN /\ b # NaN /\ b[1] # 0) =>
                      /\ r.LOTTR.kind = "num"
                      /\ r.LOTTR.den # 0
                      /\ r.LOTTR.num * b[1] = r.LOTTR.den * a[1]
                /\ (a # NaN /\ b = Num(0) /\ a[1] # 0) => r.LOTTR.kind = "inf"
                /\ (a = Num(0) /\ b = Num(0)) => r.LOTTR.kind = "nan"

\* a group whose value_at_q1 is 0 and whose value_at_q2 is 20: LOTTR is +inf
C3_Witness ==
    /\ pc = "returned"
    /\ ~ret.raised
    /\ \E i \in 1..Len(ret.data) :
          /\ ret.data[i].TTQ1P = Num(0)
          /\ ret.data[i].TTQ2P = Num(20)
          /\ ret.data[i].LOTTR.kind = "inf"

\* C3 as claimed: LOTTR is missing whenever value_at_q1 is exactly zero
C3_AsClaimed ==
    (pc = "returned" /\ ~ret.raised) =>
        \A i \in 1..Len(ret.data) :
            ret.data[i].TTQ1P = Num(0) => ret.data[i].LOTTR.kind = "nan"

\* C6: the call raises, returning nothing and leaving its input as it was,
\* exactly when q1 or q2 is outside 0..100; with both in 0..100, the endpoints
\* included, it returns the dataset with as many rows as it was given.
C6_Validation ==
    [][pc = "call" =>
         /\ arg' = arg
         /\ (arg.q1 \in 0..100 /\ arg.q2 \in 0..100) =>
               (~ret'.raised /\ Len(ret'.data) = Len(arg.data))
         /\ ~(arg.q1 \in 0..100 /\ arg.q2 \in 0..100) =>
               (ret'.raised /\ ret'.data = << >>)]_vars

\* a call with q2 = 101 on a dataset with rows has raised
C6_Witness ==
    /\ pc = "returned"
    /\ arg.q1 = 100
    /\ arg.q2 = 101
    /\ Len(arg.data) > 0
    /\ ret.raised

\* C9: the output has the rows of the input, in order; in each row the two
\* percentile values are travel times observed (not missing) in the row's
\* group, and are missing exactly when the group has none.
C9_ObservedValues ==
    (pc = "returned" /\ ~ret.raised) =>
        /\ Len(ret.data) = Len(arg.data)
        /\ \A i \in 1..Len(ret.data) :
              LET r == ret.data[i]
                  obs == Observed(arg.data, arg.data[i])
              IN  /\ \A c \in DOMAIN arg.data[i] : r[c] = arg.data[i][c]
                  /\ IF obs = {}
                     THEN r.TTQ1P = NaN /\ r.TTQ2P = NaN
                     ELSE /\ r.TTQ1P # NaN /\ r.TTQ1P[1] \in obs
                          /\ r.TTQ2P # NaN /\ r.TTQ2P[1] \in obs

\* a row with a missing travel time in a group that has one observation, 10,
\* gets 10; beside it a row whose group has only missing travel times
C9_Witness ==
    /\ pc = "returned"
    /\ ~ret.raised
    /\ Len(ret.data) = 2
    /\ arg.data[1].TT_SEC = NaN /\ arg.data[2].TT_SEC = Num(10)
    /\ arg.data[1].tmc_code = arg.data[2].tmc_code
    /\ arg.data[1].TOD = arg.data[2].TOD
    /\ ret.data[1].TTQ1P = Num(10) /\ ret.data[1].TTQ2P = Num(10)

-----------------------------------------------------------------------------
(* Main code: the five steps of the script *)

filename_ohint == [dir |-> "./Datafiles/OHINT23", base |-> <<"OHINT23", "csv">>]

filename_ohintrk == [dir |-> "./Datafiles/OHINTRK23", base |-> <<"OHINTRK23", "csv">>]

filename_ohsro == [dir |-> "./Datafiles/OHSRO23", base |-> <<"OHSRO23", "csv">>]

filename_ohusr == [dir |-> "./Datafiles/OHUSR23", base |-> <<"OHUSR23", "csv">>]

\* f'./LOTTR_{os.path.split(filename)[1].split(".")[0]}.csv'
OutputName(filename) == <<"./LOTTR_", filename.base[1], ".csv">>

\* the rows pd.merge(left, right, how='left') makes of one left row: one for
\* every right row with its key, in the order of right, or one with the right
\* columns missing when there is none
MergeRow(l, right, left_on, right_on, right_cols) ==
    LET m == SelectSeq(right,
                 LAMBDA r : \A k \in 1..Len(left_on) : r[right_on[k]] = l[left_on[k]])
    IN  IF m = << >>
        THEN <<l @@ [c \in right_cols |-> NaN]>>
        ELSE [j \in 1..Len(m) |-> l @@ m[j]]

\* a join that keeps one right row at most for a left row
Merge_FirstMatch(left, right, left_on, right_on, right_cols) ==
    [i \in 1..Len(left) |-> MergeRow(left[i], right, left_on, right_on, right_cols)[1]]

RECURSIVE Merge(_, _, _, _, _)
Merge(left, right, left_on, right_on, right_cols) ==
    IF left = << >> THEN << >>
    ELSE MergeRow(Head(left), right, left_on, right_on, right_cols)
            \o Merge(Tail(left), right, left_on, right_on, right_cols)

RawColumns == {"tmc_code", "DATETIME", "MPH", "TT_SEC", "ROW"}

\* data_int[['tmc_code','DATETIME']]
KeysOf(data) ==
    [i \in 1..Len(data) |-> [tmc_code |-> data[i].tmc_code, DATETIME |-> data[i].DATETIME]]

\* f'TRK_{c}'
TrkName(c) ==
    CASE c = "tmc_code" -> "TRK_tmc_code"
      [] c = "DATETIME" -> "TRK_DATETIME"
      [] c = "MPH" -> "TRK_MPH"
      [] c = "TT_SEC" -> "TRK_TT_SEC"
      [] c = "ROW" -> "TRK_ROW"
      [] c = "HOD" -> "TRK_HOD"
      [] c = "DOW" -> "TRK_DOW"
      [] c = "TOD" -> "TRK_TOD"
      [] c = "TTQ1P" -> "TRK_TTQ1P"
      [] c = "TTQ2P" -> "TRK_TTQ2P"
      [] c = "LOTTR" -> "TRK_LOTTR"
      [] c = "Q1" -> "TRK_Q1"
      [] c = "Q2" -> "TRK_Q2"

TrkColumns ==
    {TrkName(c) : c \in RawColumns \cup {"HOD", "DOW", "TOD", "TTQ1P", "TTQ2P", "LOTTR", "Q1", "Q2"}}

\* data_int_trk.columns = [f'TRK_{c}' for c in data_int_trk.columns]
RenameTrk(data) ==
    [i \in 1..Len(data) |->
        [t \in {TrkName(c) : c \in DOMAIN data[i]} |->
            data[i][CHOOSE c \in DOMAIN data[i] : TrkName(c) = t]]]

\* step 1, lines 89-93
InterstateAllVehicles(file) ==
    add_lottr_to_dataset(add_hod_dow_tod_to_dataset(csv_preprocessing_pipeline(file)), 50, 80)

\* step 2, lines 100-108
InterstateTrucks(file, int) ==
    LET trk == csv_preprocessing_pipeline(file)
        onkeys == Merge(KeysOf(int), trk, <<"tmc_code", "DATETIME">>,
                        <<"tmc_code", "DATETIME">>, RawColumns)
    IN  RenameTrk(add_lottr_to_dataset(add_hod_dow_tod_to_dataset(onkeys), 50, 95))

\* lines 116-118: FLAG is 1 where the truck travel time is missing, else 0
AddFlag(data) ==
    [i \in 1..Len(data) |->
        [FLAG |-> IF isna(data[i].TRK_TT_SEC) THEN 1 ELSE 0] @@ data[i]]

\* line 120: where the truck travel time is missing, the truck speed and travel
\* time become the all-vehicle ones
Impute(data) ==
    [i \in 1..Len(data) |->
        IF isna(data[i].TRK_TT_SEC)
        THEN [data[i] EXCEPT !.TRK_MPH = data[i].MPH, !.TRK_TT_SEC = data[i].TT_SEC]
        ELSE data[i]]

\* line 121
DropColumns(data, cols) ==
    [i \in 1..Len(data) |-> [c \in (DOMAIN data[i]) \ cols |-> data[i][c]]]

\* the flag computed after the imputation has overwritten the travel time
MergeInterstateData_ImputeFirst(int, trk) ==
    DropColumns(
        AddFlag(Impute(Merge(int, trk, <<"tmc_code", "DATETIME">>,
                             <<"TRK_tmc_code", "TRK_DATETIME">>, TrkColumns))),
        {"TRK_tmc_code", "TRK_DATETIME", "TRK_HOD", "TRK_DOW", "TRK_TOD"})

\* the imputation left out
MergeInterstateData_NoImpute(int, trk) ==
    DropColumns(
        AddFlag(Merge(int, trk, <<"tmc_code", "DATETIME">>,
                      <<"TRK_tmc_code", "TRK_DATETIME">>, TrkColumns)),
        {"TRK_tmc_code", "TRK_DATETIME", "TRK_HOD", "TRK_DOW", "TRK_TOD"})

\* step 3, lines 114-121
MergeInterstateData(int, trk) ==
    DropColumns(
        Impute(AddFlag(Merge(int, trk, <<"tmc_code", "DATETIME">>,
                             <<"TRK_tmc_code", "TRK_DATETIME">>, TrkColumns))),
        {"TRK_tmc_code", "TRK_DATETIME", "TRK_HOD", "TRK_DOW", "TRK_TOD"})

\* steps 4 and 5 up to the save, lines 131-135 and 145-149
RouteAllVehicles(file) ==
    add_lottr_to_dataset(add_hod_dow_tod_to_dataset(csv_preprocessing_pipeline(file)), 50, 80)

ProcessInterstate ==
    /\ pc = "step1"
    /\ data_int' = InterstateAllVehicles(ohint)
    /\ pc' = "step2"
    /\ UNCHANGED <<numpy_even, ohint, ohintrk, ohsro, ohusr, data_int_trk,
                   data_int_merged, data_sro, data_usr, files, failed, arg, ret>>

ProcessTrucks ==
    /\ pc = "step2"
    /\ data_int_trk' = InterstateTrucks(ohintrk, data_int)
    /\ pc' = "step3"
    /\ UNCHANGED <<numpy_even, ohint, ohintrk, ohsro, ohusr, data_int,
                   data_int_merged, data_sro, data_usr, files, failed, arg, ret>>

MergeInterstate ==
    /\ pc = "step3"
    /\ data_int_merged' = MergeInterstateData(data_int, data_int_trk)
    /\ files' = (OutputName(filename_ohint) :> data_int_merged') @@ files
    /\ pc' = "step4"
    /\ UNCHANGED <<numpy_even, ohint, ohintrk, ohsro, ohusr, data_int,
                   data_int_trk, data_sro, data_usr, failed, arg, ret>>

ProcessStateRoutes ==
    /\ pc = "step4"
    /\ data_sro' = RouteAllVehicles(ohsro)
    /\ files' = (OutputName(filename_ohsro) :> data_sro') @@ files
    /\ pc' = "step5"
    /\ UNCHANGED <<numpy_even, ohint, ohintrk, ohsro, ohusr, data_int,
                   data_int_trk, data_int_merged, data_usr, failed, arg, ret>>

ProcessUSRoutes ==
    /\ pc = "step5"
    /\ data_usr' = RouteAllVehicles(ohusr)
    /\ files' = (OutputName(filename_ohusr) :> data_usr') @@ files
    /\ pc' = "done"
    /\ UNCHANGED <<numpy_even, ohint, ohintrk, ohsro, ohusr, data_int,
                   data_int_trk, data_int_merged, data_sro, failed, arg, ret>>

\* the stages of a step that can raise
Stages(step) ==
    CASE step = "step1" -> {"ingestion", "bucketing", "reliability"}
      [] step = "step2" -> {"ingestion", "merge", "bucketing", "reliability"}
      [] step = "step3" -> {"merge"}
      [] step = "step4" -> {"ingestion", "bucketing", "reliability"}
      [] step = "step5" -> {"ingestion", "bucketing", "reliability"}

\* where the script is after an exception that a step raised: a handler around
\* each step would go on with the next one
AfterException_NextStep(step) ==
    CASE step = "step1" -> "step4"
      [] step = "step2" -> "step4"
      [] step = "step3" -> "step4"
      [] step = "step4" -> "step5"
      [] step = "step5" -> "done"

\* no statement of the script catches an exception: the interpreter exits
AfterException(step) == "aborted"

\* a stage of the current step raises (a file that cannot be read, a column that
\* is missing): the step assigns nothing and writes nothing
Fail ==
    /\ pc \in {"step1", "step2", "step3", "step4", "step5"}
    /\ failed = << >>
    /\ \E stage \in Stages(pc) : failed' = <<pc, stage>>
    /\ pc' = AfterException(pc)
    /\ UNCHANGED <<numpy_even, ohint, ohintrk, ohsro, ohusr, data_int, data_int_trk,
                   data_int_merged, data_sro, data_usr, files, arg, ret>>

Keys == {<<"A", Monday7>>, <<"A", Monday8>>}

IntRows == {FileRow(k[1], k[2], mph, tt) : k \in Keys, mph \in {NaN, Num(55)}, tt \in {NaN, Num(120)}}

TrkRows ==
    {FileRow(k[1], k[2], mph, tt) :
        k \in Keys, mph \in {NaN, Num(40)}, tt \in {NaN, Num(100), Num(200)}}

InitScript ==
    /\ pc = "step1"
    /\ numpy_even \in BOOLEAN
    /\ data_int = << >> /\ data_int_trk = << >> /\ data_int_merged = << >>
    /\ data_sro = << >> /\ data_usr = << >>
    /\ files = << >> /\ failed = << >>
    /\ arg = << >> /\ ret = << >>

\* the whole script, over four small files
Init ==
    /\ InitScript
    /\ \E a \in 0..MaxRunRows : \E b \in 0..(MaxRunRows - a) :
       \E c \in 0..(MaxRunRows - a - b) : \E d \in 0..(MaxRunRows - a - b - c) :
          /\ ohint \in [1..a -> IntRows]
          /\ ohintrk \in [1..b -> TrkRows]
          /\ ohsro \in [1..c -> IntRows]
          /\ ohusr \in [1..d -> IntRows]

Next ==
    \/ ProcessInterstate
    \/ ProcessTrucks
    \/ MergeInterstate
    \/ ProcessStateRoutes
    \/ ProcessUSRoutes
    \/ Fail

Spec == Init /\ [][Next]_vars

\* the three Interstate steps, over larger Interstate files
InitInterstate ==
    /\ InitScript
    /\ \E a \in 0..MaxRows : \E b \in 0..(MaxRows - a) :
          /\ ohint \in [1..a -> IntRows]
          /\ ohintrk \in [1..b -> TrkRows]
    /\ ohsro = << >>
    /\ ohusr = << >>

NextInterstate ==
    \/ ProcessInterstate
    \/ ProcessTrucks
    \/ MergeInterstate

SpecInterstate == InitInterstate /\ [][NextInterstate]_vars

-----------------------------------------------------------------------------
(* The merged Interstate output *)

InterstateOutput == OutputName(filename_ohint)

Written == InterstateOutput \in DOMAIN files

Out == files[InterstateOutput]

\* how many rows of a file have the key of row x
KeyCount(file, x) ==
    Cardinality({i \in 1..Len(file) :
        /\ file[i].tmc_code = x.tmc_code
        /\ file[i].measurement_tstamp = x.measurement_tstamp})

UniqueKeys(file) == \A i \in 1..Len(file) : KeyCount(file, file[i]) = 1

\* the row of the truck file an output row was joined with, if any
TruckRowOf(r) == ohintrk[r.TRK_ROW[1]]

\* C4: every output row is made of one all-vehicle row, and of no truck row
\* whose key differs from it; an all-vehicle row whose key is held by a rows
\* of the all-vehicle file and t rows of the truck file appears a * max(1, t)
\* times: once, and in the order of the file, when no key is repeated in
\* either file.
C4_LeftJoinRows ==
    Written =>
        /\ \A j \in 1..Len(Out) :
              /\ Out[j].ROW # NaN
              /\ Out[j].ROW[1] \in 1..Len(ohint)
              /\ LET x == ohint[Out[j].ROW[1]]
                 IN  /\ Out[j].tmc_code = x.tmc_code
                     /\ Out[j].DATETIME = x.measurement_tstamp
                     /\ Out[j].MPH = x.speed
                     /\ Out[j].TT_SEC = x.travel_time_seconds
                     /\ Out[j].TRK_ROW # NaN =>
                           /\ Out[j].TRK_ROW[1] \in 1..Len(ohintrk)
                           /\ TruckRowOf(Out[j]).tmc_code = x.tmc_code
                           /\ TruckRowOf(Out[j]).measurement_tstamp = x.measurement_tstamp
        /\ \A i \in 1..Len(ohint) :
              LET a == KeyCount(ohint, ohint[i])
                  t == KeyCount(ohintrk, ohint[i])
              IN  Cardinality({j \in 1..Len(Out) : Out[j].ROW = Num(i)})
                     = a * (IF t = 0 THEN 1 ELSE t)
        /\ (UniqueKeys(ohint) /\ UniqueKeys(ohintrk)) =>
              /\ Len(Out) = Len(ohint)
              /\ \A i \in 1..Len(Out) : Out[i].ROW = Num(i)

\* one all-vehicle row and two truck rows, the first with a key that no
\* all-vehicle row has: one output row, joined with the second truck row
C4_Witness ==
    /\ Written
    /\ Len(ohint) = 1 /\ Len(ohintrk) = 2 /\ Len(Out) = 1
    /\ KeyCount(ohint, ohintrk[1]) = 0
    /\ Out[1].ROW = Num(1)
    /\ Out[1].TRK_ROW = Num(2)

\* C4 as claimed: exactly one output row for each all-vehicle row
C4_AsClaimed ==
    Written =>
        /\ Len(Out) = Len(ohint)
        /\ \A i \in 1..Len(ohint) :
              Cardinality({j \in 1..Len(Out) : Out[j].ROW = Num(i)}) = 1

\* C5: FLAG is 1 exactly in the rows joined with no truck row (the truck file
\* has none with that key) or with a truck row whose travel time is missing;
\* there the truck speed and travel time are the all-vehicle ones of the row;
\* in the rows with FLAG 0 they are those of the truck row.
C5_Flag ==
    Written =>
        \A j \in 1..Len(Out) :
            LET r == Out[j]
                none == r.TRK_ROW = NaN
            IN  /\ r.FLAG \in {0, 1}
                /\ none => KeyCount(ohintrk, ohint[r.ROW[1]]) = 0
                /\ (r.FLAG = 1) <=> (none \/ TruckRowOf(r).travel_time_seconds = NaN)
                /\ r.FLAG = 1 => (r.TRK_MPH = r.MPH /\ r.TRK_TT_SEC = r.TT_SEC)
                /\ r.FLAG = 0 =>
                      /\ r.TRK_MPH = TruckRowOf(r).speed
                      /\ r.TRK_TT_SEC = TruckRowOf(r).travel_time_seconds

\* the example of the specification: no truck row for an all-vehicle row with
\* speed 55 and travel time 120; beside it a truck row that keeps its values
C5_Witness ==
    /\ Written
    /\ \E j \in 1..Len(Out) :
          /\ Out[j].TRK_ROW = NaN
          /\ Out[j].FLAG = 1
          /\ Out[j].TRK_MPH = Num(55)
          /\ Out[j].TRK_TT_SEC = Num(120)
    /\ \E j \in 1..Len(Out) :
          /\ Out[j].FLAG = 0
          /\ Out[j].TRK_MPH = Num(40)
          /\ Out[j].TRK_TT_SEC = Num(200)

\* C8: after the imputation the truck travel time of a row is missing exactly
\* when the truck file measured none for it and the all-vehicle travel time of
\* the row is missing too; the truck speed is missing exactly when the row's
\* all-vehicle speed is (FLAG 1) or the truck row's own speed is (FLAG 0).
C8_UsableAfterImputation ==
    Written =>
        \A j \in 1..Len(Out) :
            LET r == Out[j]
                unmeasured == r.TRK_ROW = NaN \/ TruckRowOf(r).travel_time_seconds = NaN
            IN  /\ (r.TRK_TT_SEC = NaN) <=> (unmeasured /\ r.TT_SEC = NaN)
                /\ (r.TRK_MPH = NaN) <=>
                      IF unmeasured THEN r.MPH = NaN ELSE TruckRowOf(r).speed = NaN
                /\ r.TT_SEC # NaN => r.TRK_TT_SEC # NaN

\* a row without a truck row takes the all-vehicle travel time, and a row whose
\* all-vehicle travel time is missing as well stays without one
C8_Witness ==
    /\ Written
    /\ \E j \in 1..Len(Out) :
          Out[j].TRK_ROW = NaN /\ Out[j].TT_SEC = Num(120) /\ Out[j].TRK_TT_SEC = Num(120)
    /\ \E j \in 1..Len(Out) :
          Out[j].FLAG = 1 /\ Out[j].TT_SEC = NaN /\ Out[j].TRK_TT_SEC = NaN

\* C8 as claimed: every output row has a truck travel time and a truck speed
C8_AsClaimed ==
    Written =>
        \A j \in 1..Len(Out) : Out[j].TRK_TT_SEC # NaN /\ Out[j].TRK_MPH # NaN

\* the truck file bucketed as it was read
FullTruckFeed == add_hod_dow_tod_to_dataset(csv_preprocessing_pipeline(ohintrk))

\* C10: the truck percentile values and the truck LOTTR of every output row are
\* those of the row's (segment, time of day) group in the whole truck file: every
\* truck row with a travel time counts, once, also when no all-vehicle row has
\* its key.
C10_FullTruckFeed ==
    Written =>
        \A j \in 1..Len(Out) :
            LET r == Out[j]
                g == GroupTT(dropna(FullTruckFeed), r.tmc_code, r.TOD)
                p50 == IF g = << >> THEN NaN ELSE Num(Percentile(g, 50))
                p95 == IF g = << >> THEN NaN ELSE Num(Percentile(g, 95))
            IN  /\ r.TRK_TTQ1P = p50
                /\ r.TRK_TTQ2P = p95
                /\ r.TRK_LOTTR = Divide(p95, p50)

-----------------------------------------------------------------------------
(* A run in which a step raises *)

\* the outputs the steps before a step have written
WrittenBefore(step) ==
    CASE step \in {"step1", "step2", "step3"} -> {}
      [] step = "step4" -> {OutputName(filename_ohint)}
      [] step = "step5" -> {OutputName(filename_ohint), OutputName(filename_ohsro)}

\* the output of the feed a step works on
OutputOf(step) ==
    CASE step \in {"step1", "step2", "step3"} -> OutputName(filename_ohint)
      [] step = "step4" -> OutputName(filename_ohsro)
      [] step = "step5" -> OutputName(filename_ohusr)

AllOutputs ==
    {OutputName(filename_ohint), OutputName(filename_ohsro), OutputName(filename_ohusr)}

\* C7: when a stage of a feed raises the run ends there: the output of that feed
\* is not written, nor is the output of any feed that comes later in the
\* script; the outputs of the feeds before it, and only those, are written.  A
\* run in which nothing raises writes all three outputs.
C7_FailureStopsRun ==
    /\ failed # << >> =>
          /\ pc = "aborted"
          /\ OutputOf(failed[1]) \notin DOMAIN files
          /\ DOMAIN files = WrittenBefore(failed[1])
    /\ pc = "done" => (failed = << >> /\ DOMAIN files = AllOutputs)

\* the state routes feed failed at ingestion: the Interstate output is there,
\* the outputs of the state routes and of the US routes are not
C7_Witness ==
    /\ failed = <<"step4", "ingestion">>
    /\ pc = "aborted"
    /\ DOMAIN files = {OutputName(filename_ohint)}

\* C7 as claimed: the failing feed writes no output and every other feed
\* writes its output
C7_AsClaimed ==
    (failed # << >> /\ pc \in {"aborted", "done"}) =>
        /\ OutputOf(failed[1]) \notin DOMAIN files
        /\ \A o \in AllOutputs \ {OutputOf(failed[1])} : o \in DOMAIN files

====
